---------------------------- MODULE Spec2Model ----------------------------
(***************************************************************************)
(* Model of contrib/ipython/Create_1D_ASPECT_profile.ipynb: the isentrope  *)
(* solvers, the depth/gravity integrator, relaxed_profile, and the two     *)
(* notebook handlers setup and update_plot with the module-level globals   *)
(* they share.                                                             *)
(*                                                                         *)
(* Numbers are integers on lattices.  One temperature step is the          *)
(* resolution of the root finder (brentq's xtol).  Pressures are counted   *)
(* in steps of 1/PUnit of the surface pressure, PUnit being chosen so that *)
(* every np.linspace of the model has integer nodes.  Gravity is in        *)
(* hundredths, densities in tenths.  Divisions round down, as the floats   *)
(* of the program round.                                                   *)
(***************************************************************************)
EXTENDS Integers, Sequences, FiniteSets, TLC

VARIABLES
    \* ---- module-level globals of the notebook (cell 5) ----
    rock,                    \* the evaluator object: [path, state]
    potential_temperature,
    max_pressure,
    surface_gravity,
    outer_radius,
    n_points,
    n_gridpoints,
    max_temperature_stdev,
    truncate,
    x,
    pressures,
    lines,                   \* T_line, g_line, alpha_line, beta_line, cp_line
    \* ---- the world outside the kernel ----
    outfile,                 \* contents of isentrope_properties.txt
    \* ---- observation of the last handler ----
    last,                    \* what the last handler did (stages, error, values)
    \* ---- calls of the solver functions on their own ----
    iso,                     \* a call of isentrope in progress
    grav,                    \* a call of compute_depth_gravity_profiles in progress
    interp                   \* a call of interp_isentrope in progress

vars == << rock, potential_temperature, max_pressure, surface_gravity,
           outer_radius, n_points, n_gridpoints, max_temperature_stdev,
           truncate, x, pressures, lines, outfile, last, iso, grav, interp >>

globals == << rock, potential_temperature, max_pressure, surface_gravity,
              outer_radius, n_points, n_gridpoints, max_temperature_stdev,
              truncate, x, pressures, lines, outfile, last >>

-----------------------------------------------------------------------------
(* Bounds of the model *)

\* n_points ranges over MinPoints..MaxPoints
MaxPoints == 5
\* max_pressure ranges over 0, PUnit, .., MaxPressureK * PUnit
MaxPressureK == 3
\* potential temperatures range over 0..MaxPotentialTemperature
MaxPotentialTemperature == 5

(* Program constants, scaled to the lattice *)

\* n_points_widget min=51: the least number of profile points the UI supplies
MinPoints == 4
\* UnivariateSpline's default degree k=3: a fit needs more than k points
SplineK == 3
\* n_gravity_iterations = 5
n_gravity_iterations == 5

None == << >>

-----------------------------------------------------------------------------
(* Arithmetic *)

Abs(a) == IF a < 0 THEN -a ELSE a
Min2(a, b) == IF a <= b THEN a ELSE b
Max2(a, b) == IF a >= b THEN a ELSE b
Sign(a) == IF a < 0 THEN -1 ELSE IF a > 0 THEN 1 ELSE 0

\* stands for a float that is not finite (a division by zero)
NaN == 0 - 999999

\* the array of the values f[1], ..., f[n], each computed once
RECURSIVE ArrayFrom(_, _, _)
ArrayFrom(f, k, n) ==
    IF k > n THEN << >> ELSE << f[k] >> \o ArrayFrom(f, k + 1, n)

Array(f) == ArrayFrom(f, 1, Cardinality(DOMAIN f))

\* With([y \in {v} |-> e]) is e with y standing for the value of v, which is
\* computed once
With(f) == f[CHOOSE y \in DOMAIN f : TRUE]

RECURSIVE Gcd(_, _)
Gcd(a, b) == IF b = 0 THEN a ELSE Gcd(b, a % b)

RECURSIVE LcmUpTo(_)
LcmUpTo(n) == IF n <= 1 THEN 1
              ELSE LET l == LcmUpTo(n - 1) IN (l * n) \div Gcd(l, n)

\* pressure steps per surface pressure: divisible by n - 1 for every n_points
PUnit == LcmUpTo(MaxPoints - 1)

\* the reference surface pressure 1.e5 Pa
SurfacePressure == PUnit


-----------------------------------------------------------------------------
(* The property evaluator, burnman.PerplexMaterial.  Its code is not part  *)
(* of the notebook; it is modelled from the interface the notebook's       *)
(* specification gives: a table read from a file, valid (pressure,         *)
(* temperature) bounds, set_state, attribute reads and evaluate.           *)

\* the table files that exist; any other path is rejected
Tables == {"lin", "step", "flat"}

\* lattice steps of temperature per cell of the smoothing grid
TCell == 2
\* temperature range of every table, in cells
TCells == 3

\* rock.bounds: <<<<min P, max P>>, <<min T, max T>>>>
Bounds(path) ==
    << << (IF path = "flat" THEN 0 ELSE SurfacePressure), 2 * PUnit >>,
       << 0, TCell * TCells >> >>

InBounds(path, P, T) ==
    /\ Bounds(path)[1][1] <= P /\ P <= Bounds(path)[1][2]
    /\ Bounds(path)[2][1] <= T /\ T <= Bounds(path)[2][2]

\* the temperature at which the table "step" has its phase transition
StepT == 4

\* molar entropy S(P, T).  "lin" is continuous, "step" jumps at StepT,
\* "flat" depends on neither pressure nor temperature.
EntropyOf(path, P, T) ==
    CASE path = "lin"  -> PUnit * T - 2 * P + 8 * PUnit
      [] path = "step" -> PUnit * T - 2 * P + 8 * PUnit
                          + (IF T >= StepT THEN 3 * PUnit ELSE 0)
      [] OTHER         -> 8 * PUnit

\* molar volume V(P, T)
VolumeOf(path, P, T) ==
    CASE path = "lin"  -> 40 * PUnit + PUnit * T - 4 * P
      [] path = "step" -> 40 * PUnit + PUnit * T - 4 * P
                          + (IF T >= StepT THEN 2 * PUnit ELSE 0)
      [] OTHER         -> 36 * PUnit

\* density rho(P, T), in tenths
DensityOf(path, P, T) ==
    CASE path = "flat" -> 30
      [] OTHER         -> 30 + (10 * (P - PUnit)) \div PUnit - T

\* seismic velocities
VpOf(path, P, T) ==
    CASE path = "flat" -> 80
      [] OTHER         -> 80 + (8 * (P - PUnit)) \div PUnit - 2 * T

VsOf(path, P, T) ==
    CASE path = "flat" -> 45
      [] OTHER         -> 45 + (4 * (P - PUnit)) \div PUnit - T

\* rock.params['molar_mass']
MolarMass(path) == 2

\* a property of the table, by the name evaluate is asked for
Property(path, name, P, T) ==
    CASE name = "S"                   -> EntropyOf(path, P, T)
      [] name = "V"                   -> VolumeOf(path, P, T)
      [] name = "rho"                 -> DensityOf(path, P, T)
      [] name = "p_wave_velocity"     -> VpOf(path, P, T)
      [] name = "shear_wave_velocity" -> VsOf(path, P, T)

NoRock == [path |-> "None", state |-> None]

\* burnman.PerplexMaterial(path): a fresh evaluator, no state set
PerplexMaterial(path) ==
    IF path \in Tables
    THEN [err |-> "none", rock |-> [path |-> path, state |-> None]]
    ELSE [err |-> "PropertySourceError", rock |-> NoRock]

\* rock.set_state(P, T): the evaluator now stands at (P, T); a state
\* outside the table's bounds is rejected
set_state(r, P, T) ==
    IF r.path = "None"
    THEN [err |-> "AttributeError", rock |-> r]
    ELSE IF InBounds(r.path, P, T)
    THEN [err |-> "none", rock |-> [r EXCEPT !.state = << P, T >>]]
    ELSE [err |-> "PropertySourceError", rock |-> r]

\* rock.evaluate([name], Ps, Ts)[0]: the property at each (P, T); the
\* evaluator's own state is put back afterwards
evaluate(r, name, Ps, Ts) ==
    IF r.path = "None" THEN [err |-> "AttributeError", val |-> << >>]
    ELSE IF Len(Ps) # Len(Ts) THEN [err |-> "ShapeError", val |-> << >>]
    ELSE IF \E i \in 1..Len(Ps) : ~InBounds(r.path, Ps[i], Ts[i])
    THEN [err |-> "PropertySourceError", val |-> << >>]
    ELSE [err |-> "none",
          val |-> [i \in 1..Len(Ps) |-> Property(r.path, name, Ps[i], Ts[i])]]

-----------------------------------------------------------------------------
(* numpy and scipy, by what they do *)

\* a np.linspace that stops one sample short, as np.arange would
Linspace_OneShort(a, b, n) ==
    Array([i \in 1..(n - 1) |-> a + ((b - a) * (i - 1)) \div (n - 1)])

\* np.linspace(a, b, n)
Linspace(a, b, n) ==
    IF n = 1 THEN << a >>
    ELSE Array([i \in 1..n |-> a + ((b - a) * (i - 1)) \div (n - 1)])

StrictlyIncreasing(s) == \A i \in 1..(Len(s) - 1) : s[i] < s[i + 1]

Reverse(s) == Array([i \in 1..Len(s) |-> s[Len(s) + 1 - i]])

NonDecreasing(s) == \A i \in 1..(Len(s) - 1) : s[i] <= s[i + 1]

\* UnivariateSpline(xs, ys): needs more than k = 3 points and increasing
\* xs.  With the default s=None the fit is a smoothing one, for which
\* repeated xs are let through ("x must be increasing if s > 0"); only an
\* interpolating fit (s=0) asks for strictly increasing xs.
UnivariateSpline(xs, ys) ==
    IF Len(xs) # Len(ys) THEN [err |-> "ShapeError", xs |-> xs, ys |-> ys]
    ELSE IF Len(xs) <= SplineK THEN [err |-> "SplinePoints", xs |-> xs, ys |-> ys]
    ELSE IF ~NonDecreasing(xs) THEN [err |-> "NonMonotonic", xs |-> xs, ys |-> ys]
    ELSE [err |-> "none", xs |-> xs, ys |-> ys]

\* the segment of the data a query point falls in (the end segments
\* extrapolate: ext=0)
RECURSIVE Segment(_, _, _)
Segment(xs, q, j) ==
    IF j >= Len(xs) - 1 \/ q < xs[j + 1] THEN j ELSE Segment(xs, q, j + 1)

\* spline(q): the fitted curve passes through the data, which it
\* joins and continues linearly; between repeated xs it is not finite
SplineEval(s, q) ==
    With([j \in {Segment(s.xs, q, 1)} |->
        IF s.xs[j + 1] = s.xs[j] THEN NaN
        ELSE s.ys[j] + ((s.ys[j + 1] - s.ys[j]) * (q - s.xs[j]))
                       \div (s.xs[j + 1] - s.xs[j])])

\* np.interp(q, xp, fp): linear between the samples, constant outside
Interp(q, xp, fp) ==
    IF q <= xp[1] THEN fp[1]
    ELSE IF q >= xp[Len(xp)] THEN fp[Len(xp)]
    ELSE With([j \in {Segment(xp, q, 1)} |->
             fp[j] + ((fp[j + 1] - fp[j]) * (q - xp[j])) \div (xp[j + 1] - xp[j])])

-----------------------------------------------------------------------------
(* isentrope(rock, pressures, entropy, T_guess) *)

\* rock.S: the entropy at the state the evaluator stands at
RockS(r) == EntropyOf(r.path, r.state[1], r.state[2])

\* a _deltaS that puts the evaluator back where it stood
deltaS_Restoring(r, T, S, P) ==
    With([st \in {set_state(r, P, T)} |->
        IF st.err # "none"
        THEN [err |-> st.err, rock |-> r, val |-> 0]
        ELSE [err |-> "none", rock |-> r, val |-> RockS(st.rock) - S]])

\* _deltaS(T, S, P, rock): moves the evaluator to (P, T), then reads rock.S
deltaS(r, T, S, P) ==
    With([st \in {set_state(r, P, T)} |->
        IF st.err # "none"
        THEN [err |-> st.err, rock |-> r, val |-> 0]
        ELSE [err |-> "none", rock |-> st.rock, val |-> RockS(st.rock) - S]])

\* a root finder that hands back the lower end of its bracket
Bisect_NoRefine(r, S, P, lo, hi) == [root |-> lo, rock |-> r]

\* the iteration of brentq between lo and hi, where f changes sign: halves
\* the bracket down to one lattice step and returns its better end
RECURSIVE Bisect(_, _, _, _, _)
Bisect(r, S, P, lo, hi) ==
    IF hi - lo <= 1
    THEN [root |-> (IF Abs(deltaS(r, lo, S, P).val) <= Abs(deltaS(r, hi, S, P).val)
                    THEN lo ELSE hi),
          rock |-> r]
    ELSE With([fm \in {deltaS(r, (lo + hi) \div 2, S, P)} |->
             IF fm.val = 0 THEN [root |-> (lo + hi) \div 2, rock |-> fm.rock]
             ELSE IF Sign(fm.val) = Sign(deltaS(r, lo, S, P).val)
                  THEN Bisect(fm.rock, S, P, (lo + hi) \div 2, hi)
                  ELSE Bisect(fm.rock, S, P, lo, (lo + hi) \div 2)])

\* a root finder that does not test the signs at the ends of the bracket
brentq_Unchecked(r, a, b, S, P) ==
    With([fa \in {deltaS(r, a, S, P)} |->
    IF fa.err # "none" THEN [err |-> fa.err, root |-> a, rock |-> r] ELSE
    With([fb \in {deltaS(fa.rock, b, S, P)} |->
    IF fb.err # "none" THEN [err |-> fb.err, root |-> a, rock |-> fa.rock] ELSE
    With([bs \in {Bisect(fb.rock, S, P, a, b)} |->
        [err |-> "none", root |-> bs.root, rock |-> bs.rock]])])])

\* brentq(_deltaS, a, b, args=(S, P, rock)): a ValueError unless f(a) and
\* f(b) differ in sign; else a root of f in [a, b], to within xtol
brentq(r, a, b, S, P) ==
    With([fa \in {deltaS(r, a, S, P)} |->
    IF fa.err # "none" THEN [err |-> fa.err, root |-> a, rock |-> r] ELSE
    With([fb \in {deltaS(fa.rock, b, S, P)} |->
    IF fb.err # "none" THEN [err |-> fb.err, root |-> a, rock |-> fa.rock]
    ELSE IF fa.val * fb.val > 0
    THEN [err |-> "RootNotBracketed", root |-> a, rock |-> fb.rock]
    ELSE IF fa.val = 0 THEN [err |-> "none", root |-> a, rock |-> fb.rock]
    ELSE IF fb.val = 0 THEN [err |-> "none", root |-> b, rock |-> fb.rock]
    ELSE With([bs \in {Bisect(fb.rock, S, P, a, b)} |->
             [err |-> "none", root |-> bs.root, rock |-> bs.rock]])])])

\* one pass of the loop over the pressures: the root at pressures[i]
IsentropeIter(r, P, entropy) ==
    IF r.path = "None" THEN [err |-> "AttributeError", root |-> 0, rock |-> r]
    ELSE brentq(r, Bounds(r.path)[2][1], Bounds(r.path)[2][2], entropy, P)

\* the whole loop from index i on
RECURSIVE IsentropeLoop(_, _, _, _, _)
IsentropeLoop(r, Ps, entropy, i, temps) ==
    IF i > Len(Ps) THEN [err |-> "none", temperatures |-> temps, rock |-> r]
    ELSE With([it \in {IsentropeIter(r, Ps[i], entropy)} |->
             IF it.err # "none"
             THEN [err |-> it.err, temperatures |-> << >>, rock |-> it.rock]
             ELSE IsentropeLoop(it.rock, Ps, entropy, i + 1, Append(temps, it.root))])

isentrope(r, Ps, entropy, T_guess) == IsentropeLoop(r, Ps, entropy, 1, << >>)

-----------------------------------------------------------------------------
(* compute_depth_gravity_profiles(pressures, densities, surface_gravity,   *)
(* outer_radius)                                                           *)

\* scale of the hydrostatic equation on the lattice: d(depth) =
\* DepthScale * dP / (PUnit * gravity * density)
DepthScale == 3000000
\* 4 pi G on the lattice: d(gravity r^2) = density r^2 dr / PoissonScale
PoissonScale == 10

\* odeint(lambda p, x: 1./(gfunc(x) * rhofunc(x)), 0.0, pressures): the
\* first value is the initial value 0.0, each later one adds the integral
\* over the step; integrating does not raise
RECURSIVE HydrostaticDepths(_, _, _, _)
HydrostaticDepths(Ps, gs, rhos, acc) ==
    LET i == Len(acc)
    IN  IF i = 0 THEN HydrostaticDepths(Ps, gs, rhos, << 0 >>)
        ELSE IF i >= Len(Ps) THEN acc
        ELSE HydrostaticDepths(Ps, gs, rhos,
                 Append(acc, acc[i] + ((Ps[i + 1] - Ps[i]) * DepthScale)
                                      \div (PUnit * gs[i] * rhos[i])))

\* an integration of Poisson's equation that starts from 0 instead of from
\* the initial value
RECURSIVE PoissonMass_NoInitial(_, _, _, _)
PoissonMass_NoInitial(radii, rhos, y0, acc) ==
    LET i == Len(acc)
    IN  IF i = 0 THEN PoissonMass_NoInitial(radii, rhos, y0, << 0 >>)
        ELSE IF i >= Len(radii) THEN acc
        ELSE PoissonMass_NoInitial(radii, rhos, y0,
                 Append(acc, acc[i] + ((rhos[i] * radii[i] * radii[i]) \div PoissonScale)
                                      * (radii[i + 1] - radii[i])))

\* odeint(poisson, surface_gravity*radii[0]*radii[0], radii): the first
\* value is the initial value, each later one adds the integral over the step
RECURSIVE PoissonMass(_, _, _, _)
PoissonMass(radii, rhos, y0, acc) ==
    LET i == Len(acc)
    IN  IF i = 0 THEN PoissonMass(radii, rhos, y0, << y0 >>)
        ELSE IF i >= Len(radii) THEN acc
        ELSE PoissonMass(radii, rhos, y0,
                 Append(acc, acc[i] + ((rhos[i] * radii[i] * radii[i]) \div PoissonScale)
                                      * (radii[i + 1] - radii[i])))

\* the call ends in an exception
GravityRaised(err) == [err |-> err, depths |-> << >>, gravity |-> << >>]

\* lines 123-137: one pass of the gravity iteration.  A zero gravity, density
\* or radius makes the floats non-finite; the next spline fit rejects
\* them, which ends the call ("NonFinite")
GravityPass(Ps, rhos, gs, surface_g, outer_r) ==
    With([rhofunc \in {UnivariateSpline(Ps, rhos)} |->
    IF rhofunc.err # "none" THEN GravityRaised(rhofunc.err) ELSE
    With([gfunc \in {UnivariateSpline(Ps, gs)} |->
    IF gfunc.err # "none" THEN GravityRaised(gfunc.err)
    ELSE IF \E i \in 1..Len(Ps) : gs[i] * rhos[i] = 0 THEN GravityRaised("NonFinite") ELSE
    With([depths \in {HydrostaticDepths(Ps, gs, rhos, << >>)} |->
    With([radii \in {Array([i \in 1..Len(depths) |-> outer_r - depths[i]])} |->
    With([rhofunc2 \in {UnivariateSpline(Reverse(radii), Reverse(rhos))} |->
    IF rhofunc2.err # "none" THEN GravityRaised(rhofunc2.err)
    ELSE IF \E i \in 1..Len(radii) : radii[i] = 0 THEN GravityRaised("NonFinite") ELSE
    With([mass \in {PoissonMass(radii, rhos, surface_g * radii[1] * radii[1], << >>)} |->
        [err |-> "none", depths |-> depths,
         gravity |-> Array([i \in 1..Len(mass) |->
                               (mass[i] \div radii[i]) \div radii[i]])]])])])])])])

\* the passes from number k on
RECURSIVE GravityLoop(_, _, _, _, _, _, _)
GravityLoop(Ps, rhos, gs, depths, surface_g, outer_r, k) ==
    IF k > n_gravity_iterations
    THEN [err |-> "none", depths |-> depths, gravity |-> gs]
    ELSE With([ps \in {GravityPass(Ps, rhos, gs, surface_g, outer_r)} |->
             IF ps.err # "none" THEN ps
             ELSE GravityLoop(Ps, rhos, ps.gravity, ps.depths, surface_g, outer_r, k + 1)])

compute_depth_gravity_profiles(Ps, rhos, surface_g, outer_r) ==
    GravityLoop(Ps, rhos, [i \in 1..Len(Ps) |-> surface_g], << >>,
                surface_g, outer_r, 1)

-----------------------------------------------------------------------------
(* burnman.tools.interp_smoothed_array_and_derivatives.  Its code is not   *)
(* part of the notebook; it is modelled from the notebook's specification: *)
(* a separable bell-shaped smoothing of the grid samples, cut off at       *)
(* truncate standard deviations, with the smoothed field and its two       *)
(* partial derivatives queryable at any (pressure, temperature).           *)
(* Arrays are indexed [temperature index][pressure index], the shape of    *)
(* np.meshgrid(grid_pressures, grid_temperatures).                         *)

Clamp(k, lo, hi) == IF k < lo THEN lo ELSE IF k > hi THEN hi ELSE k

\* the kernel's reach in grid nodes: truncate standard deviations, rounded
KernelRadius(stdev, spacing, trunc) ==
    (2 * trunc * stdev + spacing) \div (2 * spacing)

\* weight of a sample d nodes away: falls off from the centre to the cut
KernelWeight(d, R) == R + 1 - Abs(d)

RECURSIVE SumOver(_, _, _)
SumOver(f, lo, hi) == IF lo > hi THEN 0 ELSE f[lo] + SumOver(f, lo + 1, hi)

\* a sequence smoothed with the kernel of radius R; samples beyond the
\* ends count as the end sample
SmoothLine(a, R) ==
    IF R = 0 THEN a
    ELSE LET n == Len(a)
             total == (R + 1) * (R + 1)
         IN  Array([k \in 1..n |->
                 SumOver([d \in (0 - R)..R |->
                             KernelWeight(d, R) * a[Clamp(k + d, 1, n)]],
                         0 - R, R) \div total])

\* the array smoothed along the pressure axis, then the temperature axis
SmoothArray(array, Rx, Ry) ==
    With([alongP \in {Array([i \in 1..Len(array) |-> SmoothLine(array[i], Rx)])} |->
    With([cols \in {Array([j \in 1..Len(array[1]) |->
                   SmoothLine(Array([i \in 1..Len(array) |-> alongP[i][j]]), Ry)])} |->
        Array([i \in 1..Len(array) |->
            Array([j \in 1..Len(array[1]) |-> cols[j][i]])])])])

\* twice np.gradient of a sequence: central differences inside, one-sided
\* differences at the ends
Gradient2(a) ==
    LET n == Len(a)
    IN  Array([k \in 1..n |->
            IF k = 1 THEN 2 * (a[2] - a[1])
            ELSE IF k = n THEN 2 * (a[n] - a[n - 1])
            ELSE a[k + 1] - a[k - 1]])

\* the interpolants: the smoothed array and twice its differences along
\* the pressure (x) and the temperature (y) axis, with the grid they live on
interp_smoothed_array_and_derivatives(array, x_values, y_values, x_stdev, y_stdev, trunc) ==
    IF Len(x_values) < 2 \/ Len(y_values) < 2
    THEN [err |-> "InvalidGrid"]
    ELSE IF x_stdev < 0 \/ y_stdev < 0
    THEN [err |-> "InvalidSmoothingWidth"]
    ELSE
    With([sm \in {SmoothArray(array,
             KernelRadius(x_stdev, x_values[2] - x_values[1], trunc),
             KernelRadius(y_stdev, y_values[2] - y_values[1], trunc))} |->
    With([dycol \in {Array([j \in 1..Len(x_values) |->
                   Gradient2(Array([i \in 1..Len(y_values) |-> sm[i][j]]))])} |->
        [err |-> "none", xs |-> x_values, ys |-> y_values,
         val |-> sm,
         d2x |-> Array([i \in 1..Len(y_values) |-> Gradient2(sm[i])]),
         d2y |-> Array([i \in 1..Len(y_values) |->
                     Array([j \in 1..Len(x_values) |-> dycol[j][i]])])]])])

\* interp(P, T)[0]: linear in both directions between the nodes, the value
\* of the nearest edge outside the grid
Bilinear(xs, ys, array, P, T) ==
    Interp(T, ys, Array([i \in 1..Len(ys) |-> Interp(P, xs, array[i])]))

-----------------------------------------------------------------------------
(* interp_isentrope(interp, pressures, entropy, T_guess) *)

\* fsolve's budget of function evaluations (maxfev), scaled
MaxFev == 2

\* _deltaS(args, S, P) of interp_isentrope: interp(P, T)[0] - S
deltaS_interp(f, T, S, P) == Bilinear(f.xs, f.ys, f.val, P, T) - S

\* a / b rounded to the nearest integer
RoundDiv(a, b) == (2 * a + b) \div (2 * b)

\* the trust region: the step is halved until it lowers |f|
RECURSIVE Damp(_, _, _, _, _)
Damp(f, T, S, P, step) ==
    IF step = 0 THEN 0
    ELSE IF Abs(deltaS_interp(f, T - step, S, P)) < Abs(deltaS_interp(f, T, S, P))
    THEN step
    ELSE Damp(f, T, S, P, IF step > 0 THEN step \div 2 ELSE 0 - ((0 - step) \div 2))

\* fsolve(_deltaS, sol, args=(S, P)): Newton steps from the starting point
\* with a forward-difference slope.  It hands back its last iterate whether
\* or not the iteration converged: without full_output a failure to
\* converge is a RuntimeWarning, not an exception.  ier is MINPACK's
\* report: 1 converged, 2 the budget of evaluations is used up, 5 the
\* iteration makes no progress.
RECURSIVE fsolve(_, _, _, _, _)
fsolve(f, T, S, P, budget) ==
    With([f0 \in {deltaS_interp(f, T, S, P)} |->
    IF f0 = 0 THEN [sol |-> T, converged |-> TRUE, ier |-> 1] ELSE
    With([slope \in {deltaS_interp(f, T + 1, S, P) - f0} |->
    IF slope = 0 THEN [sol |-> T, converged |-> FALSE, ier |-> 5] ELSE
    With([step \in {Damp(f, T, S, P, RoundDiv(f0, slope))} |->
    IF step = 0
    THEN [sol |-> T, converged |-> Abs(f0) < Abs(slope),
          ier |-> IF Abs(f0) < Abs(slope) THEN 1 ELSE 5]
    ELSE IF budget = 0 THEN [sol |-> T, converged |-> FALSE, ier |-> 2]
    ELSE fsolve(f, T - step, S, P, budget - 1)])])])

\* lines 109-115: each pressure is solved from the solution of the one before
RECURSIVE InterpIsentropeLoop(_, _, _, _, _, _, _)
InterpIsentropeLoop(f, Ps, entropy, sol, i, temps, conv) ==
    IF i > Len(Ps) THEN [temperatures |-> temps, converged |-> conv]
    ELSE With([r \in {fsolve(f, sol, entropy, Ps[i], MaxFev)} |->
             InterpIsentropeLoop(f, Ps, entropy, r.sol, i + 1,
                                 Append(temps, r.sol), Append(conv, r.converged))])

interp_isentrope(f, Ps, entropy, T_guess) ==
    InterpIsentropeLoop(f, Ps, entropy, T_guess, 1, << >>, << >>)

-----------------------------------------------------------------------------
(* relaxed_profile(rock, potential_temperature, max_pressure,              *)
(* surface_gravity, outer_radius, n_points, n_gridpoints, pressure_stdev,  *)
(* temperature_smoothing_factor, max_temperature_stdev, truncate, ...)     *)

\* the smoothing factor is kept in hundredths
FactorScale == 100

\* the 50 + 30 of Tdiff_max, on the temperature lattice
TdiffBase == 3

\* the relaxed expansivity and compressibility are kept in thousandths
PropertyScale == 1000

\* dT of the velocity derivatives: one lattice step either side
dT == 2

MaxOf(S) == CHOOSE m \in S : \A y \in S : y <= m

\* a width that is not capped by max_temperature_stdev
temperature_stdev_Uncapped(max_T_stdev, factor, pressure_stdev, grid_isentrope, grid_pressures) ==
    (factor * pressure_stdev
        * MaxOf({Abs(Gradient2(grid_isentrope)[k]) : k \in 1..Len(grid_isentrope)}))
    \div (2 * FactorScale * (grid_pressures[2] - grid_pressures[1]))

\* lines 179-182: np.min([max_temperature_stdev, factor * pressure_stdev *
\* max|gradient| / spacing]); Gradient2 is twice np.gradient
temperature_stdev(max_T_stdev, factor, pressure_stdev, grid_isentrope, grid_pressures) ==
    Min2(max_T_stdev,
         (factor * pressure_stdev
             * MaxOf({Abs(Gradient2(grid_isentrope)[k]) : k \in 1..Len(grid_isentrope)}))
         \div (2 * FactorScale * (grid_pressures[2] - grid_pressures[1])))

\* a window that takes in the nodes exactly Tdiff_max away
WindowMask_Inclusive(grid_isentrope, grid_temperatures, Tdiff_max) ==
    Array([i \in 1..Len(grid_temperatures) |->
        Array([j \in 1..Len(grid_isentrope) |->
            Abs(grid_isentrope[j] - grid_temperatures[i]) <= Tdiff_max])])

\* lines 163-170 and 183-184: the nodes of the mesh whose temperature is
\* within Tdiff_max of the unsmoothed isentrope at the node's pressure
WindowMask(grid_isentrope, grid_temperatures, Tdiff_max) ==
    Array([i \in 1..Len(grid_temperatures) |->
        Array([j \in 1..Len(grid_isentrope) |->
            Abs(grid_isentrope[j] - grid_temperatures[i]) < Tdiff_max])])

\* lines 168-169 and 185-188: zeros, overwritten at the masked nodes by
\* rock.evaluate; the nodes of the grid lie within the table's bounds
GridProperty(r, name, grid_pressures, grid_temperatures, mask) ==
    Array([i \in 1..Len(grid_temperatures) |->
        Array([j \in 1..Len(grid_pressures) |->
            IF mask[i][j]
            THEN Property(r.path, name, grid_pressures[j], grid_temperatures[i])
            ELSE 0])])

\* how a call that raised is reported: the stage, the error, the evaluator
Raised(stage, err, r) == [err |-> err, stage |-> stage, rock |-> r]

\* lines 215-222: the relaxed properties from the smoothed volume and
\* entropy; a zero volume divides to a non-finite float, without raising
Ratio(num, den) == IF den = 0 THEN NaN ELSE num \div den

\* lines 225-234: the velocities either side of the temperature
Velocities(r, Ps, Ts) ==
    With([minus \in {Array([i \in 1..Len(Ts) |-> Ts[i] - dT \div 2])} |->
    With([plus \in {Array([i \in 1..Len(Ts) |-> Ts[i] + dT \div 2])} |->
    With([Vpsub \in {evaluate(r, "p_wave_velocity", Ps, minus)} |->
    IF Vpsub.err # "none" THEN [err |-> Vpsub.err] ELSE
    With([Vssub \in {evaluate(r, "shear_wave_velocity", Ps, minus)} |->
    With([Vpadd \in {evaluate(r, "p_wave_velocity", Ps, plus)} |->
    IF Vpadd.err # "none" THEN [err |-> Vpadd.err] ELSE
    With([Vsadd \in {evaluate(r, "shear_wave_velocity", Ps, plus)} |->
        [err |-> "none",
         Vps   |-> Array([i \in 1..Len(Ts) |-> (Vpadd.val[i] + Vpsub.val[i]) \div 2]),
         Vss   |-> Array([i \in 1..Len(Ts) |-> (Vsadd.val[i] + Vssub.val[i]) \div 2]),
         dVpdT |-> Array([i \in 1..Len(Ts) |-> (Vpadd.val[i] - Vpsub.val[i]) \div dT]),
         dVsdT |-> Array([i \in 1..Len(Ts) |-> (Vsadd.val[i] - Vssub.val[i]) \div dT])]])])])])])])

\* lines 215-222: the relaxed properties at the points of the profile
RelaxedProperties(r, Ps, Ts, S_interps, V_interps) ==
    LET dx == V_interps.xs[2] - V_interps.xs[1]
        dy == V_interps.ys[2] - V_interps.ys[1]
        at(f, i) == Bilinear(V_interps.xs, V_interps.ys, f, Ps[i], Ts[i])
    IN  [alphas_relaxed |->
             Array([i \in 1..Len(Ps) |->
                 Ratio(at(V_interps.d2y, i) * PropertyScale,
                       2 * dy * at(V_interps.val, i))]),
         compressibilities_relaxed |->
             Array([i \in 1..Len(Ps) |->
                 Ratio((0 - at(V_interps.d2x, i)) * PUnit * PropertyScale,
                       2 * dx * at(V_interps.val, i))]),
         specific_heats_relaxed |->
             Array([i \in 1..Len(Ps) |->
                 (Ts[i] * at(S_interps.d2y, i)) \div (2 * dy * MolarMass(r.path))])]

\* lines 211-243, once the smoothed interpolants exist
RelaxedAlongIsentrope(r, Ps, entropy, potT, sg, orad, S_interps, V_interps, grid) ==
    With([smoothed \in {interp_isentrope(S_interps, Ps, entropy, potT)} |->
    With([rho \in {evaluate(r, "rho", Ps, smoothed.temperatures)} |->
    IF rho.err # "none" THEN Raised("densities", rho.err, r) ELSE
    With([dg \in {compute_depth_gravity_profiles(Ps, rho.val, sg, orad)} |->
    IF dg.err # "none" THEN Raised("depth_gravity", dg.err, r) ELSE
    With([relaxed \in {RelaxedProperties(r, Ps, smoothed.temperatures, S_interps, V_interps)} |->
    With([vel \in {Velocities(r, Ps, smoothed.temperatures)} |->
    IF vel.err # "none" THEN Raised("velocities", vel.err, r) ELSE
        [err |-> "none", stage |-> "done", rock |-> r,
         pressures |-> Ps, entropy |-> entropy, grid |-> grid,
         converged |-> smoothed.converged,
         smoothed_temperatures |-> smoothed.temperatures,
         depths |-> dg.depths, gravity |-> dg.gravity,
         densities |-> rho.val,
         alphas_relaxed |-> relaxed.alphas_relaxed,
         compressibilities_relaxed |-> relaxed.compressibilities_relaxed,
         specific_heats_relaxed |-> relaxed.specific_heats_relaxed,
         Vss |-> vel.Vss, Vps |-> vel.Vps,
         dVsdT |-> vel.dVsdT, dVpdT |-> vel.dVpdT]])])])])])

\* lines 179-208: the width of the temperature smoothing, the window, the
\* grid values and their smoothed interpolants
SmoothedGrid(r, temperatures, grid_pressures, grid_temperatures, grid_isentrope, pressure_stdev, factor, max_T_stdev, trunc) ==
    With([tstdev \in {temperature_stdev(max_T_stdev, factor, pressure_stdev,
                           grid_isentrope, grid_pressures)} |->
    With([mask \in {WindowMask(grid_isentrope, grid_temperatures, TdiffBase + trunc * tstdev)} |->
    With([grid_entropies \in {GridProperty(r, "S", grid_pressures, grid_temperatures, mask)} |->
    With([grid_volumes \in {GridProperty(r, "V", grid_pressures, grid_temperatures, mask)} |->
    With([S_interps \in {interp_smoothed_array_and_derivatives(grid_entropies, grid_pressures,
             grid_temperatures, pressure_stdev, tstdev, trunc)} |->
    With([V_interps \in {interp_smoothed_array_and_derivatives(grid_volumes, grid_pressures,
             grid_temperatures, pressure_stdev, tstdev, trunc)} |->
        [err |-> S_interps.err, S_interps |-> S_interps, V_interps |-> V_interps,
         grid |-> [pressures |-> grid_pressures, temperatures |-> grid_temperatures,
                   isentrope |-> grid_isentrope, unsmoothed |-> temperatures,
                   pressure_stdev |-> pressure_stdev, factor |-> factor,
                   max_temperature_stdev |-> max_T_stdev,
                   temperature_stdev |-> tstdev,
                   Tdiff_max |-> TdiffBase + trunc * tstdev,
                   mask |-> mask, entropies |-> grid_entropies,
                   volumes |-> grid_volumes]]])])])])])])

\* an axis taken from the wrong pair of rock.bounds
GridPressures_WrongAxis(r, ngrid) ==
    Linspace(Bounds(r.path)[2][1], Bounds(r.path)[2][2], ngrid[1])

\* lines 146-147 and 158: np.linspace(min_grid_pressure, max_grid_pressure,
\* n_gridpoints[0]), the ends being rock.bounds[0]
GridPressures(r, ngrid) ==
    Linspace(Bounds(r.path)[1][1], Bounds(r.path)[1][2], ngrid[1])

\* lines 148-149 and 159: the same along temperature, from rock.bounds[1]
GridTemperatures(r, ngrid) ==
    Linspace(Bounds(r.path)[2][1], Bounds(r.path)[2][2], ngrid[2])

\* lines 156-208, once the unsmoothed isentrope is known
RelaxedOnGrid(r, Ps, temperatures, entropy, potT, sg, orad, ngrid, pressure_stdev, factor, max_T_stdev, trunc) ==
    With([isentrope_spline \in {UnivariateSpline(Ps, temperatures)} |->
    IF isentrope_spline.err # "none"
    THEN Raised("isentrope_spline", isentrope_spline.err, r) ELSE
    With([grid_pressures \in {GridPressures(r, ngrid)} |->
    With([grid_temperatures \in {GridTemperatures(r, ngrid)} |->
    With([grid_isentrope \in {Array([j \in 1..Len(grid_pressures) |->
                   SplineEval(isentrope_spline, grid_pressures[j])])} |->
    With([sg_ \in {SmoothedGrid(r, temperatures, grid_pressures, grid_temperatures,
                      grid_isentrope, pressure_stdev, factor, max_T_stdev, trunc)} |->
    IF sg_.err # "none" THEN Raised("smoothing", sg_.err, r) ELSE
        RelaxedAlongIsentrope(r, Ps, entropy, potT, sg, orad,
                              sg_.S_interps, sg_.V_interps, sg_.grid)])])])])])

\* lines 141-243
relaxed_profile(r, potT, maxP, sg, orad, npts, ngrid, pressure_stdev, factor, max_T_stdev, trunc) ==
    IF r.path = "None" THEN Raised("bounds", "AttributeError", r) ELSE
    With([st \in {set_state(r, SurfacePressure, potT)} |->
    IF st.err # "none" THEN Raised("set_state", st.err, r) ELSE
    With([Ps \in {Linspace(SurfacePressure, maxP, npts)} |->
    With([unsmoothed \in {isentrope(st.rock, Ps, RockS(st.rock), potT)} |->
    IF unsmoothed.err # "none"
    THEN Raised("isentrope", unsmoothed.err, unsmoothed.rock) ELSE
        RelaxedOnGrid(unsmoothed.rock, Ps, unsmoothed.temperatures, RockS(st.rock),
                      potT, sg, orad, ngrid, pressure_stdev, factor,
                      max_T_stdev, trunc)])])])

-----------------------------------------------------------------------------
(* The state before any cell has run its handlers (cell 5, the globals) *)

IsoIdle == [pc |-> "idle", rock0 |-> NoRock, pressures |-> << >>, entropy |-> 0,
            T_guess |-> 0, i |-> 0, sol |-> 0, temperatures |-> << >>,
            err |-> "none"]

GravIdle == [pc |-> "idle", pressures |-> << >>, densities |-> << >>,
             surface_gravity |-> 0, outer_radius |-> 0, pass |-> 0,
             depths |-> << >>, gravity |-> << >>, err |-> "none"]

InterpIdle == [pc |-> "idle", field |-> None, pressures |-> << >>, entropy |-> 0,
               T_guess |-> 0, i |-> 0, sol |-> 0, temperatures |-> << >>,
               ier |-> << >>, err |-> "none"]

\* the latest handler invocation: which one, how it ended, the evaluator
\* it found (rock0) and whether it wrote the output file; if it returned,
\* the profile it computed last (and for setup the one of line 354, relaxed)
LastIdle ==
    [call |-> 0, handler |-> "none", err |-> "none", stage |-> "none",
     rock0 |-> NoRock, written |-> FALSE]

GlobalsInit ==
    /\ rock = NoRock
    /\ potential_temperature = None
    /\ max_pressure = None
    /\ surface_gravity = None
    /\ outer_radius = None
    /\ n_points = None
    /\ n_gridpoints = None
    /\ max_temperature_stdev = None
    /\ truncate = None
    /\ x = None
    /\ pressures = None
    /\ lines = None
    /\ outfile = None
    /\ last = LastIdle

-----------------------------------------------------------------------------
(* The notebook: setup (cell 5, also the "update" button) and update_plot  *)
(* (cell 6, the three interactive controls), in any order.                 *)

\* how many handler invocations a behaviour follows
MaxCalls == 3

\* lines 350-351
default_P_gaussian == PUnit \div 2
default_T_smoothing == 25

\* the values the widgets of cell 2 are given
RockPaths == {"lin", "flat", "missing"}
PotentialTemperatures == {2, 7}
WidgetPressures == {2 * PUnit, (3 * PUnit) \div 2}
WidgetPoints == {MinPoints, MaxPoints}
\* the pairs of these whose np.linspace falls on whole steps of pressure
WidgetProfiles ==
    {c \in WidgetPressures \X WidgetPoints :
        (c[1] - SurfacePressure) % (c[2] - 1) = 0}
WidgetGravities == {981}
WidgetRadii == {1000}
WidgetGridpoints == {<< 3, 7 >>}
WidgetMaxSigmas == {1}
WidgetTruncations == {4}

\* the values the controls of cell 6 are given
UpdateTemperatures == {2, 3}
UpdatePGaussians == {0, 2 * PUnit, 0 - PUnit}
UpdateTSmoothings == {50}

Init ==
    /\ GlobalsInit
    /\ iso = IsoIdle
    /\ grav = GravIdle
    /\ interp = InterpIdle

\* the data of T_line, g_line, alpha_line, beta_line and cp_line
LineData(xs, prof) ==
    [x |-> xs, temperatures |-> prof.smoothed_temperatures,
     gravity |-> prof.gravity, alphas |-> prof.alphas_relaxed,
     compressibilities |-> prof.compressibilities_relaxed,
     specific_heats |-> prof.specific_heats_relaxed]

\* setup ends in an exception: the stage, the evaluator as it was left, the
\* last line whose assignment to a global took effect
SetupRaised(stage, err, rk, reached, Ps, xs) ==
    [err |-> err, stage |-> stage, rock |-> rk, reached |-> reached,
     pressures |-> Ps, x |-> xs]

\* lines 294-371 of setup, the evaluator r just built: the stage reached,
\* the globals assigned on the way, the profile last computed
SetupBody(r, potT, maxP, sg, orad, npts, ngrid, maxT, trunc) ==
    With([st \in {set_state(r, SurfacePressure, potT)} |->
    IF st.err # "none" THEN SetupRaised("set_state", st.err, r, 294, None, None) ELSE
    With([Ps \in {Linspace(SurfacePressure, maxP, npts)} |->
    With([ise \in {isentrope(st.rock, Ps, RockS(st.rock), potT)} |->
    IF ise.err # "none"
    THEN SetupRaised("isentrope", ise.err, ise.rock, 296, Ps, None) ELSE
    With([spl \in {UnivariateSpline(Ps, ise.temperatures)} |->
    IF spl.err # "none"
    THEN SetupRaised("isentrope_spline", spl.err, ise.rock, 296, Ps, None) ELSE
    With([rho \in {evaluate(ise.rock, "rho", Ps, ise.temperatures)} |->
    IF rho.err # "none"
    THEN SetupRaised("evaluate", rho.err, ise.rock, 296, Ps, None) ELSE
    With([dg \in {compute_depth_gravity_profiles(Ps, rho.val, sg, orad)} |->
    IF dg.err # "none"
    THEN SetupRaised("depth_gravity", dg.err, ise.rock, 296, Ps, None) ELSE
    \* line 312: depths / 1.e3, the same numbers in km
    With([xs \in {Array([i \in 1..Len(dg.depths) |-> dg.depths[i]])} |->
    With([rp1 \in {relaxed_profile(ise.rock, potT, maxP, sg, orad, npts, ngrid,
                         0, default_T_smoothing, maxT, trunc)} |->
    IF rp1.err # "none"
    THEN SetupRaised(rp1.stage, rp1.err, rp1.rock, 312, Ps, xs) ELSE
    With([rp2 \in {relaxed_profile(rp1.rock, potT, maxP, sg, orad, npts, ngrid,
                         default_P_gaussian, default_T_smoothing, maxT, trunc)} |->
    IF rp2.err # "none"
    THEN SetupRaised(rp2.stage, rp2.err, rp2.rock, 312, Ps, xs) ELSE
        [err |-> "none", stage |-> "done", rock |-> rp2.rock, reached |-> 371,
         pressures |-> Ps, x |-> xs, relaxed |-> rp1, profile |-> rp2]])])])])])])])])])

\* lines 276-375: setup(button)
Setup(path, potT, maxP, sg, orad, npts, ngrid, maxT, trunc) ==
    /\ last.call < MaxCalls
    /\ \E pm \in {PerplexMaterial(path)} :
       \E run \in {IF pm.err # "none" THEN pm
                   ELSE SetupBody(pm.rock, potT, maxP, sg, orad, npts, ngrid,
                                  maxT, trunc)} :
           IF pm.err # "none"
           THEN /\ last' = [call |-> last.call + 1, handler |-> "setup",
                            err |-> pm.err, stage |-> "PerplexMaterial",
                            rock0 |-> rock, written |-> FALSE]
                /\ UNCHANGED << rock, potential_temperature, max_pressure,
                                surface_gravity, outer_radius, n_points,
                                n_gridpoints, max_temperature_stdev, truncate,
                                x, pressures, lines >>
           ELSE /\ rock' = run.rock
                /\ potential_temperature' = potT
                /\ max_pressure' = maxP
                /\ surface_gravity' = sg
                /\ outer_radius' = orad
                /\ n_points' = npts
                /\ n_gridpoints' = ngrid
                /\ max_temperature_stdev' = maxT
                /\ truncate' = trunc
                /\ pressures' = IF run.reached >= 296 THEN run.pressures ELSE pressures
                /\ x' = IF run.reached >= 312 THEN run.x ELSE x
                /\ lines' = IF run.reached >= 371
                            THEN LineData(run.x, run.profile) ELSE lines
                /\ last' = IF run.err = "none"
                           THEN [call |-> last.call + 1, handler |-> "setup",
                                 err |-> "none", stage |-> "done",
                                 rock0 |-> pm.rock, written |-> FALSE,
                                 relaxed |-> run.relaxed,
                                 profile |-> run.profile]
                           ELSE [call |-> last.call + 1, handler |-> "setup",
                                 err |-> run.err, stage |-> run.stage,
                                 rock0 |-> pm.rock, written |-> FALSE]
    /\ UNCHANGED << outfile, iso, grav, interp >>

\* np.interp(qs, xp, fp) at each of the points qs
Resample(qs, xp, fp) == Array([k \in 1..Len(qs) |-> Interp(qs[k], xp, fp)])

\* lines 406-419: the profile resampled at equal steps of depth, on the
\* globals pressures and n_points
EqualDepthTable(prof, global_pressures, npts) ==
    With([p_spline \in {UnivariateSpline(prof.depths, global_pressures)} |->
    IF p_spline.err # "none" THEN [err |-> p_spline.err] ELSE
    With([depths_eq \in {Linspace(prof.depths[1], prof.depths[Len(prof.depths)], npts)} |->
    With([pressures_eq \in {Array([k \in 1..npts |-> SplineEval(p_spline, depths_eq[k])])} |->
        [err |-> "none",
         depths_eq |-> depths_eq,
         pressures_eq |-> pressures_eq,
         smoothed_temperatures |->
             Resample(pressures_eq, global_pressures, prof.smoothed_temperatures),
         densities |-> Resample(pressures_eq, global_pressures, prof.densities),
         gravity |-> Resample(pressures_eq, global_pressures, prof.gravity),
         alphas_relaxed |->
             Resample(pressures_eq, global_pressures, prof.alphas_relaxed),
         specific_heats_relaxed |->
             Resample(pressures_eq, global_pressures, prof.specific_heats_relaxed),
         compressibilities_relaxed |->
             Resample(pressures_eq, global_pressures, prof.compressibilities_relaxed),
         Vss |-> Resample(pressures_eq, global_pressures, prof.Vss),
         Vps |-> Resample(pressures_eq, global_pressures, prof.Vps),
         dVsdT |-> Resample(pressures_eq, global_pressures, prof.dVsdT),
         dVpdT |-> Resample(pressures_eq, global_pressures, prof.dVpdT)]])])])

\* lines 424-431: np.savetxt of the twelve columns, transposed, under a
\* header that states the global n_points.  '%.10e' prints eleven
\* significant digits, which is every digit of the numbers of this model.
savetxt(t, npts) ==
    [points |-> npts,
     rows |-> Array([k \in 1..Len(t.depths_eq) |->
                 << t.depths_eq[k], t.pressures_eq[k], t.smoothed_temperatures[k],
                    t.densities[k], t.gravity[k], t.alphas_relaxed[k],
                    t.specific_heats_relaxed[k], t.compressibilities_relaxed[k],
                    t.Vss[k], t.Vps[k], t.dVsdT[k], t.dVpdT[k] >>])]

\* lines 390-435: update_plot(potential_temperature, P_gaussian_GPa,
\* T_smoothing); the potential temperature is the control's, everything
\* else the globals.  The cell that defines it reads default_P_gaussian,
\* which setup assigns at line 350 after x (line 312) with nothing that
\* can fail in between: update_plot exists once some setup has come so far.
UpdatePlot(potT, P_gaussian, T_smoothing) ==
    /\ last.call < MaxCalls
    /\ x # None
    /\ \E rp \in {relaxed_profile(rock, potT, max_pressure, surface_gravity,
                       outer_radius, n_points, n_gridpoints, P_gaussian,
                       T_smoothing, max_temperature_stdev, truncate)} :
       \E tab \in {IF rp.err # "none" \/ lines = None THEN rp
                   ELSE EqualDepthTable(rp, pressures, n_points)} :
       LET failed(stage, err) ==
               [call |-> last.call + 1, handler |-> "update_plot",
                err |-> err, stage |-> stage, rock0 |-> rock,
                written |-> FALSE]
       IN  /\ rock' = rp.rock
           /\ IF rp.err # "none"
              THEN /\ last' = failed(rp.stage, rp.err)
                   /\ UNCHANGED << lines, outfile >>
              ELSE IF lines = None
              THEN /\ last' = failed("set_data", "AttributeError")
                   /\ UNCHANGED << lines, outfile >>
              ELSE IF tab.err # "none"
              THEN /\ last' = failed("p_spline", tab.err)
                   /\ lines' = LineData(x, rp)
                   /\ outfile' = outfile
              ELSE /\ last' = [call |-> last.call + 1, handler |-> "update_plot",
                               err |-> "none", stage |-> "done",
                               rock0 |-> rock, written |-> TRUE,
                               profile |-> rp, table |-> tab]
                   /\ lines' = LineData(x, rp)
                   /\ outfile' = savetxt(tab, n_points)
    /\ UNCHANGED << potential_temperature, max_pressure, surface_gravity,
                    outer_radius, n_points, n_gridpoints, max_temperature_stdev,
                    truncate, x, pressures, iso, grav, interp >>

Next ==
    \/ \E path \in RockPaths, potT \in PotentialTemperatures,
          prof \in WidgetProfiles, sg \in WidgetGravities,
          orad \in WidgetRadii, ngrid \in WidgetGridpoints,
          maxT \in WidgetMaxSigmas, trunc \in WidgetTruncations :
          Setup(path, potT, prof[1], sg, orad, prof[2], ngrid, maxT, trunc)
    \/ \E potT \in UpdateTemperatures, P_gaussian \in UpdatePGaussians,
          T_smoothing \in UpdateTSmoothings :
          UpdatePlot(potT, P_gaussian, T_smoothing)

Spec == Init /\ [][Next]_vars

-----------------------------------------------------------------------------
(* A call of isentrope on its own: the pressures are drawn as its callers  *)
(* draw them (np.linspace from the surface pressure, lines 154 and 296),   *)
(* the evaluator and the target entropy are free.                          *)

NumPoints == MinPoints..MaxPoints
\* the lengths of the pressure sequences isentrope is called with: those of
\* the notebook, and the single point np.linspace(1.e5, max_pressure, 1)
SequenceLengths == NumPoints \cup {1}
MaxPressures == {k * PUnit : k \in 0..MaxPressureK}
EntropyTargets == {(PUnit \div 2) * k : k \in 6..(2 * (9 + MaxPotentialTemperature))}

InitIsentrope ==
    /\ \E path \in Tables, st \in {None, << SurfacePressure, 0 >>} :
          rock = [path |-> path, state |-> st]
    /\ \E mp \in MaxPressures, n \in SequenceLengths, S \in EntropyTargets,
          Tg \in {0, MaxPotentialTemperature} :
          iso = [pc |-> "loop", rock0 |-> rock,
                 pressures |-> Linspace(SurfacePressure, mp, n),
                 entropy |-> S, T_guess |-> Tg, i |-> 1, sol |-> Tg,
                 temperatures |-> << >>, err |-> "none"]
    /\ potential_temperature = None
    /\ max_pressure = None
    /\ surface_gravity = None
    /\ outer_radius = None
    /\ n_points = None
    /\ n_gridpoints = None
    /\ max_temperature_stdev = None
    /\ truncate = None
    /\ x = None
    /\ pressures = None
    /\ lines = None
    /\ outfile = None
    /\ last = LastIdle
    /\ grav = GravIdle
    /\ interp = InterpIdle

\* lines 96-98: one pass of the loop; an exception ends the call
IsentropeStep ==
    /\ iso.pc = "loop"
    /\ iso.i <= Len(iso.pressures)
    /\ LET it == IsentropeIter(rock, iso.pressures[iso.i], iso.entropy)
       IN  /\ rock' = it.rock
           /\ iso' = IF it.err # "none"
                     THEN [iso EXCEPT !.pc = "raised", !.err = it.err]
                     ELSE [iso EXCEPT !.sol = it.root,
                                      !.temperatures = Append(@, it.root),
                                      !.i = @ + 1]
    /\ UNCHANGED << potential_temperature, max_pressure, surface_gravity,
                    outer_radius, n_points, n_gridpoints, max_temperature_stdev,
                    truncate, x, pressures, lines, outfile, last, grav, interp >>

\* line 100: return temperatures
IsentropeReturn ==
    /\ iso.pc = "loop"
    /\ iso.i > Len(iso.pressures)
    /\ iso' = [iso EXCEPT !.pc = "returned"]
    /\ UNCHANGED << globals, grav, interp >>

NextIsentrope == IsentropeStep \/ IsentropeReturn

SpecIsentrope == InitIsentrope /\ [][NextIsentrope]_vars

-----------------------------------------------------------------------------
(* A call of compute_depth_gravity_profiles on its own: pressures as the   *)
(* callers draw them, densities of a table along a geotherm.               *)

SurfaceGravities == {800, 981}
OuterRadii == {800, 1000}

\* a temperature profile rising by slope steps over the sequence
Geotherm(T0, slope, n) == [i \in 1..n |-> T0 + (slope * (i - 1)) \div (n - 1)]

InitGravity ==
    /\ \E path \in {"lin", "flat"}, mp \in MaxPressures, n \in NumPoints,
          T0 \in 0..(MaxPotentialTemperature - 2), slope \in 0..2,
          g0 \in SurfaceGravities, r0 \in OuterRadii :
          LET Ps == Linspace(SurfacePressure, mp, n)
          IN  grav = [pc |-> "loop", pressures |-> Ps,
                      densities |-> [i \in 1..n |->
                          DensityOf(path, Ps[i], Geotherm(T0, slope, n)[i])],
                      surface_gravity |-> g0, outer_radius |-> r0, pass |-> 0,
                      depths |-> << >>,
                      gravity |-> [i \in 1..n |-> g0],
                      err |-> "none"]
    /\ GlobalsInit
    /\ iso = IsoIdle
    /\ interp = InterpIdle

\* lines 122-137: one pass of the loop; an exception ends the call
GravityStep ==
    /\ grav.pc = "loop"
    /\ grav.pass < n_gravity_iterations
    /\ LET ps == GravityPass(grav.pressures, grav.densities, grav.gravity,
                             grav.surface_gravity, grav.outer_radius)
       IN  grav' = IF ps.err # "none"
                   THEN [grav EXCEPT !.pc = "raised", !.err = ps.err]
                   ELSE [grav EXCEPT !.pass = @ + 1, !.depths = ps.depths,
                                     !.gravity = ps.gravity]
    /\ UNCHANGED << globals, iso, interp >>

\* line 138: return depths, gravity
GravityReturn ==
    /\ grav.pc = "loop"
    /\ grav.pass = n_gravity_iterations
    /\ grav' = [grav EXCEPT !.pc = "returned"]
    /\ UNCHANGED << globals, iso, interp >>

NextGravity == GravityStep \/ GravityReturn

SpecGravity == InitGravity /\ [][NextGravity]_vars

-----------------------------------------------------------------------------
(* A call of interp_isentrope on its own: the interpolant is the smoothed  *)
(* entropy of a table over its whole grid, the pressures are drawn as      *)
(* relaxed_profile draws them (line 154), the target entropy and the       *)
(* starting temperature are free.                                          *)

SmoothedTables == {"lin", "step"}
TemperatureStdevs == {0, 1}

\* the smoothed entropy field of a table, every node of the grid evaluated
EntropyField(path, ngrid, tstdev, trunc) ==
    With([gp \in {GridPressures([path |-> path, state |-> None], ngrid)} |->
    With([gt \in {GridTemperatures([path |-> path, state |-> None], ngrid)} |->
        interp_smoothed_array_and_derivatives(
            Array([i \in 1..Len(gt) |->
                Array([j \in 1..Len(gp) |-> EntropyOf(path, gp[j], gt[i])])]),
            gp, gt, 0, tstdev, trunc)])])

InitInterpIsentrope ==
    /\ \E path \in SmoothedTables, ngrid \in WidgetGridpoints,
          tstdev \in TemperatureStdevs, trunc \in WidgetTruncations,
          mp \in MaxPressures, n \in WidgetPoints, S \in EntropyTargets,
          Tg \in {0, MaxPotentialTemperature} :
          interp = [pc |-> "loop",
                    field |-> EntropyField(path, ngrid, tstdev, trunc),
                    pressures |-> Linspace(SurfacePressure, mp, n),
                    entropy |-> S, T_guess |-> Tg, i |-> 1, sol |-> Tg,
                    temperatures |-> << >>, ier |-> << >>, err |-> "none"]
    /\ GlobalsInit
    /\ iso = IsoIdle
    /\ grav = GravIdle

\* lines 111-113: one pass of the loop.  fsolve raises nothing, whatever
\* it reports; its iterate is stored and is where the next pass starts.
InterpIsentropeStep ==
    /\ interp.pc = "loop"
    /\ interp.i <= Len(interp.pressures)
    /\ \E r \in {fsolve(interp.field, interp.sol, interp.entropy,
                         interp.pressures[interp.i], MaxFev)} :
          interp' = [interp EXCEPT !.sol = r.sol,
                                   !.temperatures = Append(@, r.sol),
                                   !.ier = Append(@, r.ier),
                                   !.i = @ + 1]
    /\ UNCHANGED << globals, iso, grav >>

\* line 115: return temperatures
InterpIsentropeReturn ==
    /\ interp.pc = "loop"
    /\ interp.i > Len(interp.pressures)
    /\ interp' = [interp EXCEPT !.pc = "returned"]
    /\ UNCHANGED << globals, iso, grav >>

NextInterpIsentrope == InterpIsentropeStep \/ InterpIsentropeReturn

SpecInterpIsentrope == InitInterpIsentrope /\ [][NextInterpIsentrope]_vars

-----------------------------------------------------------------------------
(* Claims about isentrope *)

\* the solver tolerance in entropy: the most a continuous table's entropy
\* changes over one step of the root finder's resolution in temperature
Tolerance == PUnit

\* entropy continuous in temperature: no jump larger than the tolerance
\* between neighbouring temperatures, at any pressure of the table
Continuous(path) ==
    \A P \in Bounds(path)[1][1]..Bounds(path)[1][2] :
        \A T \in Bounds(path)[2][1]..(Bounds(path)[2][2] - 1) :
            Abs(EntropyOf(path, P, T + 1) - EntropyOf(path, P, T)) <= Tolerance

\* the target entropy lies between the table's entropies at its lowest and
\* highest temperature, at a pressure of the table
Spanned(path, P, S) ==
    (EntropyOf(path, P, Bounds(path)[2][1]) - S)
        * (EntropyOf(path, P, Bounds(path)[2][2]) - S) <= 0

PressureInTable(path, P) ==
    Bounds(path)[1][1] <= P /\ P <= Bounds(path)[1][2]

\* C1: when isentrope returns for a strictly increasing pressure sequence
\* and a table whose entropy is continuous in temperature, it returns one
\* temperature per pressure, and the table's entropy at each (P_i, T_i) is
\* within the tolerance of the target entropy.
C1_IsentropeResidual ==
    (/\ iso.pc = "returned"
     /\ StrictlyIncreasing(iso.pressures)
     /\ Continuous(rock.path))
    => /\ Len(iso.temperatures) = Len(iso.pressures)
       /\ \A i \in 1..Len(iso.pressures) :
             Abs(EntropyOf(rock.path, iso.pressures[i], iso.temperatures[i])
                 - iso.entropy) < Tolerance

\* a call returned on a rising isentrope whose roots fall between lattice
\* temperatures
C1_Witness ==
    /\ iso.pc = "returned"
    /\ StrictlyIncreasing(iso.pressures)
    /\ Continuous(rock.path)
    /\ Len(iso.temperatures) >= MinPoints
    /\ iso.temperatures[1] < iso.temperatures[Len(iso.temperatures)]
    /\ \E i \in 1..Len(iso.pressures) :
          EntropyOf(rock.path, iso.pressures[i], iso.temperatures[i]) # iso.entropy

\* the first pressure of the sequence, if any, at which the target is not
\* spanned
Unspanned(path, Ps, S) ==
    {i \in 1..Len(Ps) : PressureInTable(path, Ps[i]) /\ ~Spanned(path, Ps[i], S)}

\* C2: if the target entropy is not spanned at some pressure of the
\* sequence, isentrope never returns, and the error it ends in is
\* RootNotBracketed; whatever it returns lies within the temperature bounds.
C2_RootNotBracketed ==
    /\ (Unspanned(rock.path, iso.pressures, iso.entropy) # {})
          => /\ iso.pc # "returned"
             /\ (iso.pc = "raised" => iso.err = "RootNotBracketed")
             /\ (iso.pc = "loop" =>
                    iso.i <= Len(iso.pressures)
                    /\ \A j \in Unspanned(rock.path, iso.pressures, iso.entropy) :
                          iso.i <= j)
    /\ \A i \in 1..Len(iso.temperatures) :
          /\ Bounds(rock.path)[2][1] <= iso.temperatures[i]
          /\ iso.temperatures[i] <= Bounds(rock.path)[2][2]

\* the call raised RootNotBracketed at a later pressure, after it had
\* found the temperatures of the earlier ones
C2_Witness ==
    /\ iso.pc = "raised"
    /\ iso.err = "RootNotBracketed"
    /\ Len(iso.temperatures) >= 1
    /\ Unspanned(rock.path, iso.pressures, iso.entropy) # {}

-----------------------------------------------------------------------------
(* Claims about compute_depth_gravity_profiles *)

\* C3: for equal-length samples with strictly increasing pressures (and a
\* positive outer radius), the first depth is 0 and the first gravity is
\* the surface gravity after each pass of the gravity iteration and in
\* what the function returns.
C3_SurfaceValues ==
    (/\ grav.pc \in {"loop", "returned"}
     /\ grav.pass >= 1
     /\ Len(grav.pressures) = Len(grav.densities)
     /\ StrictlyIncreasing(grav.pressures))
    => /\ grav.depths[1] = 0
       /\ grav.gravity[1] = grav.surface_gravity
       /\ Len(grav.depths) = Len(grav.pressures)
       /\ Len(grav.gravity) = Len(grav.pressures)

\* the function returned after its five passes, with gravity falling
\* below the surface value at depth
C3_Witness ==
    /\ grav.pc = "returned"
    /\ grav.pass = n_gravity_iterations
    /\ StrictlyIncreasing(grav.pressures)
    /\ StrictlyIncreasing(grav.depths)
    /\ grav.gravity[Len(grav.gravity)] # grav.surface_gravity


-----------------------------------------------------------------------------
(* Claims about setup and update_plot *)

\* the latest invocation returned normally: its profile is last.profile
Returned == last.handler # "none" /\ last.err = "none"

\* the latest invocation was an update_plot that returned normally
Updated == last.handler = "update_plot" /\ last.err = "none"

\* C4, as claimed: the evaluator is read-only for relaxed_profile (and the
\* isentrope it calls): after an update_plot, whose only use of the
\* evaluator is its call of relaxed_profile, the evaluator is as it was
\* before.
C4_EvaluatorReadOnly ==
    last.handler = "update_plot" => rock = last.rock0

\* C4, amended: relaxed_profile never changes which table the evaluator
\* reads; the state the evaluator stands at is not kept, for a
\* relaxed_profile that returns leaves it at the profile's last pressure,
\* at a temperature of the table.
C4_EvaluatorTableKept ==
    last.handler = "update_plot" =>
        /\ rock.path = last.rock0.path
        /\ last.err = "none" =>
              /\ Len(rock.state) = 2
              /\ rock.state[1] = max_pressure
              /\ InBounds(rock.path, rock.state[1], rock.state[2])

\* an update_plot returned and left the evaluator of the same table at
\* another state than it found it at
C4_Witness ==
    /\ Updated
    /\ rock.path = last.rock0.path
    /\ last.rock0.state # None
    /\ rock.state # last.rock0.state

\* the arrays of a profile: the pressures and what relaxed_profile returns
ProfileArrays(p) ==
    << p.pressures, p.smoothed_temperatures, p.depths, p.gravity, p.densities,
       p.alphas_relaxed, p.compressibilities_relaxed, p.specific_heats_relaxed,
       p.Vss, p.Vps, p.dVsdT, p.dVpdT >>

\* a column of the written table
Column(rows, c) == [k \in 1..Len(rows) |-> rows[k][c]]

Within(v, axis) == axis[1] <= v /\ v <= axis[Len(axis)]

\* C6: in every relaxed_profile that returns, each pressure of the profile
\* lies between the least and the greatest grid pressure, and each
\* temperature of the isentrope, unsmoothed and smoothed, between the
\* least and the greatest grid temperature.
C6_GridSpansProfile ==
    Returned =>
        /\ \A i \in 1..Len(last.profile.pressures) :
              Within(last.profile.pressures[i], last.profile.grid.pressures)
        /\ \A i \in 1..Len(last.profile.grid.unsmoothed) :
              Within(last.profile.grid.unsmoothed[i],
                     last.profile.grid.temperatures)
        /\ \A i \in 1..Len(last.profile.smoothed_temperatures) :
              Within(last.profile.smoothed_temperatures[i],
                     last.profile.grid.temperatures)

\* a profile that reaches the grid's greatest pressure, on an isentrope
\* that rises above the grid's least temperature
C6_Witness ==
    /\ Returned
    /\ Len(last.profile.grid.pressures) >= 2
    /\ last.profile.pressures[n_points]
           = last.profile.grid.pressures[Len(last.profile.grid.pressures)]
    /\ last.profile.grid.unsmoothed[n_points] > last.profile.grid.temperatures[1]


\* the pressure the profile p has at the depth d
PressureAtDepth(p, d) == SplineEval(UnivariateSpline(p.depths, p.pressures), d)

\* the quantity q of the profile p, sampled with its pressures, at depth d
AtDepth(p, q, d) == Interp(PressureAtDepth(p, d), p.pressures, q)

\* the row of the profile p at the depth d, in the order of the header
RowAtDepth(p, d) ==
    << d, PressureAtDepth(p, d), AtDepth(p, p.smoothed_temperatures, d),
       AtDepth(p, p.densities, d), AtDepth(p, p.gravity, d),
       AtDepth(p, p.alphas_relaxed, d), AtDepth(p, p.specific_heats_relaxed, d),
       AtDepth(p, p.compressibilities_relaxed, d), AtDepth(p, p.Vss, d),
       AtDepth(p, p.Vps, d), AtDepth(p, p.dVsdT, d), AtDepth(p, p.dVpdT, d) >>

\* C7: the table an update_plot writes has n_points rows, the number its
\* POINTS line states, at equal steps of depth from the first to the last
\* depth of the profile; each row holds, in this order, the depth and the
\* profile's pressure, temperature, density, gravity, thermal expansivity,
\* specific heat, compressibility, shear and P wave velocity, dVs/dT and
\* dVp/dT, all twelve of the one sample of the profile at that depth.
C7_TableRows ==
    last.written =>
        /\ outfile.points = n_points
        /\ Len(outfile.rows) = outfile.points
        /\ \A k \in 1..Len(outfile.rows) :
              /\ outfile.rows[k][1]
                     = Linspace(last.profile.depths[1],
                                last.profile.depths[n_points], n_points)[k]
              /\ outfile.rows[k] = RowAtDepth(last.profile, outfile.rows[k][1])

\* the depth axis of the plot as setup computes it (lines 301-312), for the
\* unsmoothed isentrope of the profile p and the globals now in force
DepthAxis(p) ==
    compute_depth_gravity_profiles(
        p.pressures, evaluate(rock, "rho", p.pressures, p.grid.unsmoothed).val,
        surface_gravity, outer_radius).depths

\* C8: what the latest update_plot shows stems from the parameters in
\* force at that invocation: the five curves are those of the profile it
\* computed, and the depths they are drawn against are the depths of the
\* isentrope of its own potential temperature.
C8_NothingStale ==
    Updated => lines = LineData(DepthAxis(last.profile), last.profile)

\* C9: an update_plot whose profile computation failed at some stage, by
\* an exception or by a solve that did not converge, writes no table.
C9_FailureAborts ==
    last.handler = "update_plot" =>
        IF last.err # "none"
        THEN ~last.written
        ELSE (\E i \in 1..Len(last.profile.converged) : ~last.profile.converged[i])
                 => ~last.written

\* twice the steepest slope, per grid step, of the unsmoothed isentrope
\* sampled at the grid pressures: differences across two steps inside the
\* grid, doubled differences across one step at its ends
SteepestSlope2(g) ==
    MaxOf({Abs(IF j = 1 THEN 2 * (g.isentrope[2] - g.isentrope[1])
               ELSE IF j = Len(g.isentrope)
               THEN 2 * (g.isentrope[j] - g.isentrope[j - 1])
               ELSE g.isentrope[j + 1] - g.isentrope[j - 1]) :
           j \in 1..Len(g.isentrope)})

\* temperature_smoothing_factor * pressure_stdev * max|dT/dP| over the
\* grid's pressure spacing, the factor in hundredths
SlopeWidth(g) ==
    (g.factor * g.pressure_stdev * SteepestSlope2(g))
        \div (2 * FactorScale * (g.pressures[2] - g.pressures[1]))

\* C10: the temperature smoothing width of every relaxed_profile that
\* returns is the smaller of max_temperature_stdev and the slope width;
\* it never exceeds max_temperature_stdev, and it is 0 when the pressure
\* width is 0 and max_temperature_stdev is not negative.
C10_TemperatureStdev ==
    Returned =>
        /\ \/ /\ last.profile.grid.temperature_stdev = SlopeWidth(last.profile.grid)
              /\ SlopeWidth(last.profile.grid)
                     <= last.profile.grid.max_temperature_stdev
           \/ /\ last.profile.grid.temperature_stdev
                     = last.profile.grid.max_temperature_stdev
              /\ last.profile.grid.max_temperature_stdev
                     <= SlopeWidth(last.profile.grid)
        /\ last.profile.grid.temperature_stdev
               <= last.profile.grid.max_temperature_stdev
        /\ (/\ last.profile.grid.pressure_stdev = 0
            /\ last.profile.grid.max_temperature_stdev >= 0)
               => last.profile.grid.temperature_stdev = 0

\* a profile smoothed in pressure whose slope width is above the cap
C10_Witness ==
    /\ Returned
    /\ last.profile.grid.pressure_stdev > 0
    /\ SlopeWidth(last.profile.grid) > last.profile.grid.max_temperature_stdev
    /\ last.profile.grid.temperature_stdev
           = last.profile.grid.max_temperature_stdev

-----------------------------------------------------------------------------
(* Claims about the smoothing grid of relaxed_profile *)

\* the node (i, j) of the grid g lies inside the window: the temperature of
\* its row is less than 50 + 30 + truncate * temperature_stdev away from
\* the unsmoothed isentrope at the pressure of its column
InWindow(g, i, j) ==
    Abs(g.isentrope[j] - g.temperatures[i])
        < TdiffBase + truncate * g.temperature_stdev

\* C11: in every relaxed_profile that returns, a grid node is evaluated if
\* and only if it lies inside the window; an evaluated node holds the
\* table's entropy and volume at its own pressure and temperature, every
\* other node holds entropy 0 and volume 0.
C11_WindowedEvaluation ==
    Returned =>
        \A g \in {last.profile.grid} :
            \A i \in 1..Len(g.temperatures), j \in 1..Len(g.pressures) :
                IF InWindow(g, i, j)
                THEN /\ g.mask[i][j]
                     /\ g.entropies[i][j]
                            = EntropyOf(rock.path, g.pressures[j], g.temperatures[i])
                     /\ g.volumes[i][j]
                            = VolumeOf(rock.path, g.pressures[j], g.temperatures[i])
                ELSE /\ ~g.mask[i][j]
                     /\ g.entropies[i][j] = 0
                     /\ g.volumes[i][j] = 0

\* a profile returned whose window leaves out some node of the grid, a
\* node exactly at the window's edge among them, and takes in others
C11_Witness ==
    /\ Returned
    /\ \E i \in 1..Len(last.profile.grid.temperatures),
          j \in 1..Len(last.profile.grid.pressures) :
          /\ Abs(last.profile.grid.isentrope[j] - last.profile.grid.temperatures[i])
                 = TdiffBase + truncate * last.profile.grid.temperature_stdev
          /\ last.profile.grid.entropies[i][j] = 0
    /\ \E i \in 1..Len(last.profile.grid.temperatures),
          j \in 1..Len(last.profile.grid.pressures) :
          /\ InWindow(last.profile.grid, i, j)
          /\ last.profile.grid.entropies[i][j] > 0

\* the profile was computed with no smoothing in pressure or temperature
ZeroWidth(p) == p.grid.pressure_stdev = 0 /\ p.grid.temperature_stdev = 0

\* the re-solved temperatures of the profile are its unsmoothed isentrope,
\* to within the resolution of the root finder
Reproduced(p) ==
    /\ Len(p.smoothed_temperatures) = Len(p.grid.unsmoothed)
    /\ \A i \in 1..Len(p.grid.unsmoothed) :
          Abs(p.smoothed_temperatures[i] - p.grid.unsmoothed[i]) <= 1

\* C12: a relaxed_profile that returns with pressure_stdev = 0 and
\* temperature_stdev = 0 has re-solved, at every pressure of the profile,
\* the temperature of the unsmoothed isentrope, within the solver
\* tolerance; so has the call of line 354 of every setup that returns.
C12_ZeroWidthNoOp ==
    /\ (Returned /\ ZeroWidth(last.profile)) => Reproduced(last.profile)
    /\ (last.handler = "setup" /\ last.err = "none") =>
           (ZeroWidth(last.relaxed) => Reproduced(last.relaxed))

-----------------------------------------------------------------------------
(* Claims about interp_isentrope *)

\* C13: once the solve of interp_isentrope has used up its budget at some
\* pressure without converging, the call has failed with NonConvergence:
\* it is not going on to the next pressure from that iterate and it has
\* not returned the temperatures.
C13_NonConvergenceRaised ==
    (\E k \in 1..Len(interp.ier) : interp.ier[k] = 2)
        => interp.pc = "raised" /\ interp.err = "NonConvergence"

-----------------------------------------------------------------------------
(* Claims about the pressures of compute_depth_gravity_profiles *)

\* C14: for pressures that are not strictly increasing (among them those
\* of a maximum pressure not above the surface pressure),
\* compute_depth_gravity_profiles completes no pass and returns nothing:
\* the call ends in the error NonMonotonicPressure.
C14_NonMonotonicPressure ==
    ~StrictlyIncreasing(grav.pressures) =>
        /\ grav.pc # "returned"
        /\ grav.pc = "raised" => grav.err = "NonMonotonic"
        /\ grav.pc = "loop" => grav.pass = 0

-----------------------------------------------------------------------------
(* Claims about the end-to-end scenario *)

\* the table's entropy and volume are the same at every temperature
TemperatureIndependent(path) ==
    \A P \in Bounds(path)[1][1]..Bounds(path)[1][2] :
        \A T \in Bounds(path)[2][1]..Bounds(path)[2][2] :
            /\ EntropyOf(path, P, T) = EntropyOf(path, P, Bounds(path)[2][1])
            /\ VolumeOf(path, P, T) = VolumeOf(path, P, Bounds(path)[2][1])

\* C15: on a table whose entropy and volume do not depend on temperature,
\* for the single pressure at the surface and the entropy the table has
\* there at the potential temperature, isentrope returns, and what it
\* returns is the potential temperature it was given.
C15_SinglePointScenario ==
    (/\ TemperatureIndependent(rock.path)
     /\ iso.pressures = << SurfacePressure >>
     /\ iso.entropy = EntropyOf(rock.path, SurfacePressure, iso.T_guess)
     /\ iso.i > 1)
    => /\ iso.pc # "raised"
       /\ iso.temperatures = << iso.T_guess >>

-----------------------------------------------------------------------------
(* Claims about the module-level globals *)

\* the depths setup computes (lines 294-312) from the configuration now in
\* the globals; None if that computation does not get through
SetupDepthAxis ==
    With([st \in {set_state(rock, SurfacePressure, potential_temperature)} |->
    IF st.err # "none" THEN None ELSE
    With([ise \in {isentrope(st.rock, pressures, RockS(st.rock),
                            potential_temperature)} |->
    IF ise.err # "none" THEN None ELSE
    With([rho \in {evaluate(ise.rock, "rho", pressures, ise.temperatures)} |->
    IF rho.err # "none" THEN None ELSE
        compute_depth_gravity_profiles(pressures, rho.val, surface_gravity,
                                       outer_radius).depths])])])

\* C16: whenever update_plot can run (its cell exists once a setup has
\* assigned x), the globals it reads are those of one setup: pressures is
\* the np.linspace of the max_pressure and n_points in force, x is the depth
\* axis of the configuration in force, both have n_points entries, and the
\* plot lines exist and are drawn against x.
C16_GlobalsConsistent ==
    x # None =>
        /\ rock.path \in Tables
        /\ pressures = Linspace(SurfacePressure, max_pressure, n_points)
        /\ Len(pressures) = n_points
        /\ Len(x) = n_points
        /\ x = SetupDepthAxis
        /\ lines # None
        /\ lines.x = x

=============================================================================
